---- MODULE Spec2Model ----
(***************************************************************************)
(* Instapaper-RSS-sync: the ingestion engine (add_new_articles) and the    *)
(* retention engine (cleanup_old_articles) of src/main.py, as a sequential *)
(* state machine.  The remote service, the feed parser and the clock are   *)
(* the environment: every response they can give is drawn from a bounded   *)
(* set at the step that makes the call.                                    *)
(*                                                                         *)
(* tracked_data is a Python dict: an insertion-ordered sequence of entries *)
(* with pairwise distinct url.  JSON values keep their type: a bookmark    *)
(* identifier is [ty, n] (the integer n or the string of its digits), and  *)
(* str() maps both to the same text.                                       *)
(***************************************************************************)
EXTENDS Integers, Sequences, FiniteSets, TLC

VARIABLES
    pc,                   \* position of main(): "start", "load", "ingest", "entries", "cleanup",
                          \* "cleanup_loop", "save", "done"; "aborted", "crashed" when it raised
    now,                  \* time.time()
    run,                  \* number of the ingestion run (1, 2, ...)
    feeds,                \* what feedparser.parse returns for each configured feed (newest first)
    fi,                   \* index of feed_url in RSS_FEED_URLS (outer loop of add_new_articles)
    entries,              \* what is left of reversed(feed.entries) (inner loop)
    add_res,              \* the last response of bookmarks/add
    add_log,              \* the add calls issued, in order
    ingest_in,            \* tracked_data when the current ingestion run began
    tracked_data,         \* the snapshot main() holds
    cleanup_in,           \* the argument of the current cleanup_old_articles call
    current_time,         \* cleanup_old_articles' local current_time
    list_res,             \* the response of bookmarks/list in this cycle
    unread_bookmarks,     \* cleanup_old_articles' local mapping str(bookmark_id) -> record
    updated_tracked_data, \* cleanup_old_articles' local result
    idx,                  \* position of the loop over tracked_data.items()
    delete_log,           \* the delete calls issued, in order
    auth_res,             \* the response of oauth/access_token in this run
    file,                 \* the content of DB_FILE
    file0,                \* the content of DB_FILE when the run began
    file_ops,             \* the reads and writes of DB_FILE, by run
    purged,               \* the entries a saved retention cycle dropped, by run
    urls_to_remove_from_db \* the earlier variant's local list of keys to delete

vars == <<pc, now, run, feeds, fi, entries, add_res, add_log, ingest_in,
          tracked_data, cleanup_in, current_time, list_res, unread_bookmarks,
          updated_tracked_data, idx, delete_log,
          auth_res, file, file0, file_ops, purged, urls_to_remove_from_db>>

ingestVars == <<run, feeds, fi, entries, add_res, add_log, ingest_in>>

cleanupVars == <<cleanup_in, current_time, list_res, unread_bookmarks,
                 updated_tracked_data, idx, delete_log>>

mainVars == <<auth_res, file, file0, file_ops, purged, urls_to_remove_from_db>>

----------------------------------------------------------------------------
(* Bounds of the model *)

MaxTracked == 2     \* entries of the snapshot a cleanup cycle starts from
MaxListLen == 2     \* records in a bookmarks/list response
MaxFeedLen == 2     \* entries of one parsed feed
MaxRuns == 2        \* ingestion runs against the same feed content

----------------------------------------------------------------------------
(* Program constants *)

seconds_in_24h == 24 * 60 * 60

SleepSeconds == 2

StatusOK == 200

RSS_FEED_URLS == <<"feed1", "feed2">>

----------------------------------------------------------------------------
(* Values *)

UrlSeq == <<"a", "b", "c", "d">>

Urls == {"a", "b"}

Digits == <<"1", "2", "3">>

NoId == [ty |-> "missing", n |-> 0]

\* str(x) for a JSON integer or string holding an integer's digits
Str(id) == IF id.ty = "missing" THEN "None" ELSE Digits[id.n]

StartTime == 3 * seconds_in_24h

----------------------------------------------------------------------------
(* The remote service's responses *)

\* the identifiers bookmarks/list reports: the integer 1, the string "1", the integer 2
ListIds == {[ty |-> "int", n |-> 1], [ty |-> "str", n |-> 1], [ty |-> "int", n |-> 2]}

\* the identifiers stored in tracked entries: the integer 1, the string "2"
TrackedIds == {[ty |-> "int", n |-> 1], [ty |-> "str", n |-> 2]}

\* the starred field of a record: the string "1", the string "0", absent, the integer 0
StarredValues == {"str:1", "str:0", "missing", "int:0"}

BookmarkRecords ==
    {[kind |-> "dict", type |-> "bookmark", bookmark_id |-> i, starred |-> s] :
        i \in ListIds, s \in StarredValues}

\* the leading user-info record of a list response
UserRecord == [kind |-> "dict", type |-> "user", bookmark_id |-> NoId, starred |-> "missing"]

\* an element that is no JSON object (a string, a number)
ScalarItem == [kind |-> "scalar", type |-> "missing", bookmark_id |-> NoId, starred |-> "missing"]

ListElements == BookmarkRecords \cup {UserRecord, ScalarItem}

\* the sequences of at most maxLen elements; two records may carry the same identifier,
\* or the integer and the string of the same digits, which str() maps to one key
ItemSeqs(maxLen) == UNION {[1..n -> ListElements] : n \in 0..maxLen}

\* a decoded body: a sequence ("list"), an object whose only key "bookmarks" holds the
\* sequence ("wrapped"), an object of one other key ("object"), the object without keys
\* ("empty_object"), a number, a string of one character ("string"), the empty string
\* ("empty_string"), null; or text that is no JSON ("undecodable")
Body(shape, items) == [shape |-> shape, items |-> items]

OtherShapes ==
    {"object", "empty_object", "number", "string", "empty_string", "null", "undecodable"}

\* the bodies of a list response; of a wrapped sequence only the key is ever walked, so
\* the wrapped bodies carry at most one record
ListBodies ==
    {Body("list", s) : s \in ItemSeqs(MaxListLen)}
        \cup {Body("wrapped", s) : s \in ItemSeqs(1)}
        \cup {Body(sh, <<>>) : sh \in OtherShapes}

Response(exc, status, body) == [exc |-> exc, status |-> status, body |-> body]

NoResponse == Response(FALSE, 0, Body("null", <<>>))

Statuses == {StatusOK, 403, 500}

\* every outcome of the list call: a transport exception, or a status with a body
ListOutcomes ==
    {Response(TRUE, 0, Body("null", <<>>))}
        \cup {Response(FALSE, StatusOK, b) : b \in ListBodies}
        \cup {Response(FALSE, st, Body(sh, s)) :
                st \in Statuses \ {StatusOK}, sh \in {"list", "wrapped"}, s \in ItemSeqs(1)}

\* every outcome of a delete call (the response body is never read)
DeleteOutcomes == {"ok", "status", "exception"}

----------------------------------------------------------------------------
(* cleanup_old_articles: the scan of the list response *)

EmptyMap == [k \in {} |-> ScalarItem]

Put(map, k, v) == [x \in (DOMAIN map) \cup {k} |-> IF x = k THEN v ELSE map[x]]

\* what "for item in raw_data" iterates over; a dict yields its keys, a string its characters
IterItems(body) ==
    CASE body.shape = "list" -> body.items
      [] body.shape = "wrapped" -> <<ScalarItem>>
      [] body.shape = "object" -> <<ScalarItem>>
      [] body.shape = "string" -> <<ScalarItem>>
      [] OTHER -> <<>>

\* res.json() raises on text that is no JSON; iterating a number or None raises TypeError
\* item['bookmark_id'] raises KeyError on a bookmark record that has no identifier
ScanRaises(body) ==
    \/ body.shape \in {"undecodable", "number", "null"}
    \/ /\ body.shape = "list"
       /\ \E i \in 1..Len(body.items) :
              /\ body.items[i].kind = "dict"
              /\ body.items[i].type = "bookmark"
              /\ body.items[i].bookmark_id.ty = "missing"

IsBookmark(item) == item.kind = "dict" /\ item.type = "bookmark"

RECURSIVE ScanItems(_, _)
ScanItems(items, acc) ==
    IF items = <<>> THEN acc
    ELSE ScanItems(Tail(items),
                   IF IsBookmark(Head(items))
                       THEN Put(acc, Str(Head(items).bookmark_id), Head(items))
                       ELSE acc)

\* lines 96-100: the mapping built from a decoded body
Normalize(body) == ScanItems(IterItems(body), EmptyMap)

\* ListFails without the status test of line 95
ListFailsOnlyOnException(res) == res.exc \/ ScanRaises(res.body)

\* the list call ends in one of the two early returns (lines 101-106)
ListFails(res) == res.exc \/ res.status # StatusOK \/ ScanRaises(res.body)

\* Expired with >= for >
ExpiredAtTTL(cur, info) == cur - info.added_at >= seconds_in_24h

Expired(cur, info) == cur - info.added_at > seconds_in_24h

\* line 114: the delete is issued when the record's starred field is the string "0"
Unliked(bookmark) == bookmark.starred = "str:0"

ShouldDelete(info, map) ==
    /\ Str(info.id) \in DOMAIN map
    /\ Unliked(map[Str(info.id)])

Keys(data) == {data[i].url : i \in 1..Len(data)}

Entry(url, added_at, id) == [url |-> url, added_at |-> added_at, id |-> id]

DeleteCall(r, url, bookmark_id, outcome) ==
    [run |-> r, url |-> url, bookmark_id |-> bookmark_id, outcome |-> outcome]

----------------------------------------------------------------------------
(* cleanup_old_articles (src/main.py lines 87-121) *)

\* lines 89-106: the list call and the scan of its body; both early returns hand the
\* argument back, which main() assigns to tracked_data (line 169)
ListCallFrom(outcomes) ==
    /\ pc = "cleanup"
    /\ \E res \in outcomes :
          /\ list_res' = res
          /\ cleanup_in' = tracked_data
          /\ current_time' = now
          /\ updated_tracked_data' = <<>>
          /\ idx' = 1
          /\ IF ListFails(res)
                THEN /\ unread_bookmarks' = EmptyMap
                     /\ pc' = "save"
                ELSE /\ unread_bookmarks' = Normalize(res.body)
                     /\ pc' = "cleanup_loop"
    /\ UNCHANGED <<now, tracked_data, delete_log>>
    /\ UNCHANGED ingestVars
    /\ UNCHANGED mainVars

\* the list call, against every response of ListOutcomes
ListCall == ListCallFrom(ListOutcomes)

\* lines 109-119: one iteration of the loop over tracked_data.items().  The delete call
\* stands outside any try: a transport exception leaves cleanup_old_articles and main()
CleanupEntry ==
    /\ pc = "cleanup_loop"
    /\ idx <= Len(tracked_data)
    /\ LET info == tracked_data[idx] IN
         IF Expired(current_time, info)
           THEN /\ updated_tracked_data' = updated_tracked_data
                /\ IF ShouldDelete(info, unread_bookmarks)
                     THEN \E o \in DeleteOutcomes :
                            /\ delete_log' = Append(delete_log,
                                                    DeleteCall(run, info.url, Str(info.id), o))
                            /\ pc' = IF o = "exception" THEN "crashed" ELSE pc
                     ELSE UNCHANGED <<delete_log, pc>>
           ELSE /\ updated_tracked_data' = Append(updated_tracked_data, info)
                /\ UNCHANGED <<delete_log, pc>>
    /\ idx' = idx + 1
    /\ UNCHANGED <<now, tracked_data, cleanup_in, current_time, list_res, unread_bookmarks>>
    /\ UNCHANGED ingestVars
    /\ UNCHANGED mainVars

\* line 121, and the assignment of main() line 169
CleanupReturn ==
    /\ pc = "cleanup_loop"
    /\ idx > Len(tracked_data)
    /\ tracked_data' = updated_tracked_data
    /\ pc' = "save"
    /\ UNCHANGED <<now, cleanup_in, current_time, list_res, unread_bookmarks,
                   updated_tracked_data, idx, delete_log>>
    /\ UNCHANGED ingestVars
    /\ UNCHANGED mainVars

----------------------------------------------------------------------------
(* add_new_articles (src/main.py lines 57-85) *)

AddIds == {[ty |-> "int", n |-> 1], [ty |-> "int", n |-> 2]}

\* the first element of an add response: a record with an identifier, one without, a scalar
AddElements ==
    {[kind |-> "dict", type |-> "bookmark", bookmark_id |-> i, starred |-> "str:0"] :
        i \in AddIds \cup {NoId}} \cup {ScalarItem}

AddBodies ==
    {Body("list", <<e>>) : e \in AddElements}
        \cup {Body(sh, <<>>) : sh \in {"list", "object", "undecodable"}}

\* every outcome of the add call: a transport exception or timeout, or a status with a body
AddOutcomes ==
    {Response(TRUE, 0, Body("null", <<>>))}
        \cup {Response(FALSE, StatusOK, b) : b \in AddBodies}
        \cup {Response(FALSE, 500, Body("list", <<e>>)) :
                e \in {x \in AddElements : x.bookmark_id = [ty |-> "int", n |-> 1]}}

\* lines 68-71: status 200 and the decoded body a non-empty list
UsualFormat(res) ==
    /\ ~res.exc
    /\ res.status = StatusOK
    /\ res.body.shape = "list"
    /\ Len(res.body.items) > 0

\* Recorded with data[0].get('bookmark_id'): a missing identifier is stored as None
RecordedWithoutId(res) == UsualFormat(res)

\* line 75: data[0]['bookmark_id'] is evaluated before the entry is stored; it raises on a
\* scalar (TypeError) and on a record without the key (KeyError), and line 82 catches both
Recorded(res) ==
    /\ UsualFormat(res)
    /\ res.body.items[1].kind = "dict"
    /\ res.body.items[1].bookmark_id.ty # "missing"

\* Reverse as the identity: the entries are walked in the parser's order
NotReversed(s) == s

\* line 62: reversed(feed.entries)
Reverse(s) == [i \in 1..Len(s) |-> s[Len(s) + 1 - i]]

\* an add call: the run, the URL sent, whether the URL was a key of the snapshot when the
\* call was made, whether an entry was stored for it, the index of the feed being walked
\* and the number of its entries not yet walked
AddCall(r, url, tracked, recorded, feed, left) ==
    [run |-> r, url |-> url, tracked |-> tracked, recorded |-> recorded,
     feed |-> feed, left |-> left]

\* tracked_data[url] = info: a new key is appended, an existing key keeps its place
SetItem(data, info) ==
    IF info.url \in Keys(data)
      THEN [i \in 1..Len(data) |-> IF data[i].url = info.url THEN info ELSE data[i]]
      ELSE Append(data, info)

\* lines 59-62: the next feed is parsed and its entries reversed
ParseFeed ==
    /\ pc = "ingest"
    /\ fi <= Len(RSS_FEED_URLS)
    /\ entries' = Reverse(feeds[fi])
    /\ pc' = "entries"
    /\ UNCHANGED <<now, run, feeds, fi, add_res, add_log, ingest_in, tracked_data>>
    /\ UNCHANGED cleanupVars
    /\ UNCHANGED mainVars

\* Unseen without the membership test
UnseenAlways(url, data) == TRUE

\* line 64: the test the add call is guarded by
Unseen(url, data) == url \notin Keys(data)

\* lines 63-85: one entry of the feed
AddEntryFrom(outcomes) ==
    /\ pc = "entries"
    /\ entries # <<>>
    /\ LET url == Head(entries) IN
         IF Unseen(url, tracked_data)
           THEN \E res \in outcomes :
                  /\ add_res' = res
                  /\ add_log' = Append(add_log, AddCall(run, url, url \in Keys(tracked_data), Recorded(res),
                                                     fi, Len(entries)))
                  /\ tracked_data' =
                        IF Recorded(res)
                          THEN SetItem(tracked_data,
                                       Entry(url, now, res.body.items[1].bookmark_id))
                          ELSE tracked_data
                  /\ now' = now + SleepSeconds
           ELSE UNCHANGED <<add_res, add_log, tracked_data, now>>
    /\ entries' = Tail(entries)
    /\ UNCHANGED <<pc, run, feeds, fi, ingest_in>>
    /\ UNCHANGED cleanupVars
    /\ UNCHANGED mainVars

\* one entry of the feed, against every response of AddOutcomes
AddEntry == AddEntryFrom(AddOutcomes)

\* the inner loop is exhausted: the outer loop moves to the next feed
FeedDone ==
    /\ pc = "entries"
    /\ entries = <<>>
    /\ fi' = fi + 1
    /\ pc' = "ingest"
    /\ UNCHANGED <<now, run, feeds, entries, add_res, add_log, ingest_in,
                   tracked_data>>
    /\ UNCHANGED cleanupVars
    /\ UNCHANGED mainVars

\* add_new_articles returns to main() (line 166)
IngestReturn ==
    /\ pc = "ingest"
    /\ fi > Len(RSS_FEED_URLS)
    /\ pc' = "cleanup"
    /\ UNCHANGED <<now, run, feeds, fi, entries, add_res, add_log, ingest_in,
                   tracked_data>>
    /\ UNCHANGED cleanupVars
    /\ UNCHANGED mainVars

\* add_new_articles is called again on the snapshot it left, against the same feed content
IngestAgain ==
    /\ pc = "cleanup"
    /\ run < MaxRuns
    /\ run' = run + 1
    /\ fi' = 1
    /\ ingest_in' = tracked_data
    /\ pc' = "ingest"
    /\ UNCHANGED <<now, feeds, entries, add_res, add_log, tracked_data>>
    /\ UNCHANGED cleanupVars
    /\ UNCHANGED mainVars

----------------------------------------------------------------------------
(* Specifications *)

\* ages around the TTL: one second over it, exactly it, one hour
AddedAts == {StartTime - seconds_in_24h - 1, StartTime - seconds_in_24h, StartTime - 3600}

\* the snapshots of n entries, in insertion order
SnapshotsOfLen(n) ==
    {[i \in 1..n |-> Entry(UrlSeq[i], f[i][1], f[i][2])] :
        f \in [1..n -> AddedAts \X TrackedIds]}

Snapshots == UNION {SnapshotsOfLen(n) : n \in 0..MaxTracked}

FeedContents ==
    [1..Len(RSS_FEED_URLS) -> UNION {[1..n -> Urls] : n \in 0..MaxFeedLen}]

IngestSnapshots ==
    {<<>>, <<Entry("a", StartTime - 3600, [ty |-> "int", n |-> 1])>>}

InitCommon ==
    /\ now = StartTime
    /\ run = 1
    /\ fi = 1
    /\ entries = <<>>
    /\ add_res = NoResponse
    /\ add_log = <<>>
    /\ ingest_in = tracked_data
    /\ cleanup_in = tracked_data
    /\ current_time = StartTime
    /\ list_res = NoResponse
    /\ unread_bookmarks = EmptyMap
    /\ updated_tracked_data = <<>>
    /\ idx = 1
    /\ delete_log = <<>>
    /\ auth_res = "token"
    /\ file = [kind |-> "json", data |-> tracked_data]
    /\ file0 = file
    /\ file_ops = {}
    /\ purged = {}
    /\ urls_to_remove_from_db = <<>>

\* one retention cycle on a snapshot loaded from the state file
InitCleanup ==
    /\ pc = "cleanup"
    /\ tracked_data \in Snapshots
    /\ feeds = [i \in 1..Len(RSS_FEED_URLS) |-> <<>>]
    /\ InitCommon

NextCleanup == ListCall \/ CleanupEntry \/ CleanupReturn

SpecCleanup == InitCleanup /\ [][NextCleanup]_vars

\* ingestion, run MaxRuns times against the same feed content
InitIngest ==
    /\ pc = "ingest"
    /\ tracked_data \in IngestSnapshots
    /\ feeds \in FeedContents
    /\ InitCommon

NextIngest == ParseFeed \/ AddEntry \/ FeedDone \/ IngestReturn \/ IngestAgain

SpecIngest == InitIngest /\ [][NextIngest]_vars

----------------------------------------------------------------------------
(* main() (src/main.py lines 161-172), run after run *)

\* the response of oauth/access_token: the token pair "oauth_token=..&oauth_token_secret=.."
\* ("token"); a refusal whose text splits the same way, "name=value&name=value"
\* ("error_pairs"); a refusal whose text does not ("error_text"); a transport exception
AuthOutcomes == {"token", "error_pairs", "error_text", "exception"}

\* lines 32-35: requests.post raises, or indexing the split text raises IndexError; the
\* status is never read, so a refusal of the form "name=value&name=value" is taken for a
\* token pair
AuthRaises(res) == res \in {"error_text", "exception"}

\* the content of DB_FILE: no file ("missing"), an empty file ("empty"), text that is no
\* JSON ("unparsable"), bytes that are no text or text json.loads cannot walk
\* ("undecodable"), or a dumped snapshot ("json")
File(kind, data) == [kind |-> kind, data |-> data]

\* lines 42-49: json.JSONDecodeError and IOError are caught; the UnicodeDecodeError of
\* f.read() on bytes that are no UTF-8 (line 43) and the RecursionError of json.loads on
\* text nested beyond the recursion limit (line 46) are neither, and leave main()
LoadRaises(f) == f.kind = "undecodable"

\* lines 40-49: the snapshot get_tracked_data returns
LoadFile(f) == IF f.kind = "json" THEN f.data ELSE <<>>

FileOp(r, op) == [run |-> r, op |-> op]

Purge(r, url) == [run |-> r, url |-> url]

\* line 162
GetOAuthToken ==
    /\ pc = "start"
    /\ \E res \in AuthOutcomes :
          /\ auth_res' = res
          /\ pc' = IF AuthRaises(res) THEN "aborted" ELSE "load"
    /\ UNCHANGED <<now, tracked_data, file, file0, file_ops, purged, urls_to_remove_from_db>>
    /\ UNCHANGED ingestVars
    /\ UNCHANGED cleanupVars

\* line 163
GetTrackedData ==
    /\ pc = "load"
    /\ file_ops' = file_ops \cup {FileOp(run, "load")}
    /\ IF LoadRaises(file)
         THEN /\ pc' = "crashed"
              /\ UNCHANGED <<tracked_data, ingest_in>>
         ELSE /\ pc' = "ingest"
              /\ tracked_data' = LoadFile(file)
              /\ ingest_in' = LoadFile(file)
    /\ UNCHANGED <<now, run, feeds, fi, entries, add_res, add_log>>
    /\ UNCHANGED <<auth_res, file, file0, purged, urls_to_remove_from_db>>
    /\ UNCHANGED cleanupVars

\* line 172: the snapshot replaces the content of DB_FILE
SaveTrackedData ==
    /\ pc = "save"
    /\ file' = File("json", tracked_data)
    /\ file_ops' = file_ops \cup {FileOp(run, "save")}
    /\ purged' = purged \cup {Purge(run, u) : u \in Keys(cleanup_in) \ Keys(tracked_data)}
    /\ pc' = "done"
    /\ UNCHANGED <<now, tracked_data, auth_res, file0, urls_to_remove_from_db>>
    /\ UNCHANGED ingestVars
    /\ UNCHANGED cleanupVars

\* the time between two invocations of the program: a day
Delays == {seconds_in_24h}

\* the program is invoked again, whether the last run completed or raised; nothing but
\* DB_FILE outlives a run
NextRun ==
    /\ pc \in {"done", "aborted", "crashed"}
    /\ run < MaxRuns
    /\ run' = run + 1
    /\ \E d \in Delays : now' = now + d
    /\ pc' = "start"
    /\ file0' = file
    /\ tracked_data' = <<>>
    /\ fi' = 1
    /\ entries' = <<>>
    /\ add_res' = NoResponse
    /\ ingest_in' = <<>>
    /\ cleanup_in' = <<>>
    /\ current_time' = now'
    /\ list_res' = NoResponse
    /\ unread_bookmarks' = EmptyMap
    /\ updated_tracked_data' = <<>>
    /\ idx' = 1
    /\ auth_res' = "none"
    /\ UNCHANGED <<feeds, add_log, delete_log, file, file_ops, purged,
                   urls_to_remove_from_db>>

\* the responses of bookmarks/add the runs of main() are checked against
MainAddOutcomes ==
    {Response(TRUE, 0, Body("null", <<>>)),
     Response(FALSE, 500,
              Body("list", <<[kind |-> "dict", type |-> "bookmark",
                              bookmark_id |-> [ty |-> "int", n |-> 1], starred |-> "str:0"]>>)),
     Response(FALSE, StatusOK,
              Body("list", <<[kind |-> "dict", type |-> "bookmark",
                              bookmark_id |-> [ty |-> "int", n |-> 1], starred |-> "str:0"]>>))}

MainBookmarks ==
    {b \in BookmarkRecords :
        /\ b.bookmark_id \in {[ty |-> "str", n |-> 1], [ty |-> "int", n |-> 2]}
        /\ b.starred \in {"str:0", "str:1"}}

\* the responses of bookmarks/list the runs of main() are checked against
MainListOutcomes ==
    {Response(TRUE, 0, Body("null", <<>>)),
     Response(FALSE, StatusOK, Body("list", <<>>))}
        \cup {Response(FALSE, StatusOK, Body("list", <<b>>)) : b \in MainBookmarks}
        \cup {Response(FALSE, 500, Body("list", <<b>>)) :
                b \in {x \in MainBookmarks : Str(x.bookmark_id) = "1" /\ x.starred = "str:0"}}
        \cup {Response(FALSE, StatusOK, Body("wrapped", <<b>>)) :
                b \in {x \in MainBookmarks : Str(x.bookmark_id) = "1" /\ x.starred = "str:0"}}

\* AddEntry and ListCall against these responses
MainAddEntry == AddEntryFrom(MainAddOutcomes)

MainListCall == ListCallFrom(MainListOutcomes)

\* the state files a first run may find
MainFiles ==
    {File(k, <<>>) : k \in {"missing", "empty", "unparsable", "undecodable"}}
        \cup {File("json", <<Entry("a", t, [ty |-> "int", n |-> 1])>>) :
                t \in {StartTime - seconds_in_24h - 1, StartTime - 60 * 60}}

\* the feed contents the runs of main() are checked against: MaxFeedLen entries in all
MainFeeds == {f \in FeedContents : Len(f[1]) + Len(f[2]) <= MaxFeedLen}

Init ==
    /\ pc = "start"
    /\ now = StartTime
    /\ run = 1
    /\ feeds \in MainFeeds
    /\ file \in MainFiles
    /\ file0 = file
    /\ file_ops = {}
    /\ purged = {}
    /\ auth_res = "none"
    /\ tracked_data = <<>>
    /\ fi = 1
    /\ entries = <<>>
    /\ add_res = NoResponse
    /\ add_log = <<>>
    /\ ingest_in = <<>>
    /\ cleanup_in = <<>>
    /\ current_time = StartTime
    /\ list_res = NoResponse
    /\ unread_bookmarks = EmptyMap
    /\ updated_tracked_data = <<>>
    /\ idx = 1
    /\ delete_log = <<>>
    /\ urls_to_remove_from_db = <<>>

Next ==
    \/ GetOAuthToken
    \/ GetTrackedData
    \/ ParseFeed
    \/ MainAddEntry
    \/ FeedDone
    \/ IngestReturn
    \/ MainListCall
    \/ CleanupEntry
    \/ CleanupReturn
    \/ SaveTrackedData
    \/ NextRun

Spec == Init /\ [][Next]_vars

----------------------------------------------------------------------------
(* The terms of the claims *)

\* the list call failed outright: a transport exception or a non-success status
ListFailedOutright(res) == res.exc \/ res.status # StatusOK

\* the list call returned a success status with a body
ListSucceeded(res) == ~res.exc /\ res.status = StatusOK

\* the records of a list response, whether the body is the sequence or wraps it
RemoteRecords(body) == IF body.shape \in {"list", "wrapped"} THEN body.items ELSE <<>>

\* the remote mapping of the specification: the bookmark records of RemoteRecords, by identifier
RemoteMapping(body) == ScanItems(RemoteRecords(body), EmptyMap)

Aged(info) == current_time - info.added_at > seconds_in_24h

InputEntries == {cleanup_in[i] : i \in 1..Len(cleanup_in)}

ResultEntries == {tracked_data[i] : i \in 1..Len(tracked_data)}

CycleDeletes == {delete_log[i] : i \in {j \in 1..Len(delete_log) : delete_log[j].run = run}}

DeletedFor(info) == \E d \in CycleDeletes : d.url = info.url

\* the cycle returned and main() holds its result
Returned == pc = "save"

----------------------------------------------------------------------------
(* Claims on the retention engine, checked under SpecCleanup *)

\* C1: when the list call raises or returns a non-success status, the cycle issues no
\* delete call and returns the snapshot it was given, key for key and value for value.
C1_FailSafe ==
    ListFailedOutright(list_res) =>
        /\ CycleDeletes = {}
        /\ pc # "cleanup_loop"
        /\ Returned => tracked_data = cleanup_in

\* C1 witness: a non-success status whose body lists an aged entry's bookmark as unstarred.
C1_Witness ==
    /\ Returned
    /\ ~list_res.exc
    /\ list_res.status # StatusOK
    /\ \E e \in InputEntries :
          /\ Aged(e)
          /\ ShouldDelete(e, RemoteMapping(list_res.body))
          /\ e \in ResultEntries

\* the list response reports the bookmark of this entry with starred = "1"
ReportedStarred(info) ==
    /\ ListSucceeded(list_res)
    /\ \E i \in 1..Len(RemoteRecords(list_res.body)) :
          LET r == RemoteRecords(list_res.body)[i] IN
            /\ IsBookmark(r)
            /\ Str(r.bookmark_id) = Str(info.id)
            /\ r.starred = "str:1"

\* C2: an aged entry whose bookmark the list response reports with starred = "1", in any
\* of its records, is absent from the returned snapshot, and no delete call carries its
\* bookmark identifier.
C2_StarredExemption ==
    \A e \in InputEntries :
        (Aged(e) /\ ReportedStarred(e)) =>
            /\ \A d \in CycleDeletes : d.bookmark_id # Str(e.id)
            /\ Returned => e.url \notin Keys(tracked_data)

\* the entry is aged and the mapping the engine built holds a record for its bookmark
Adjudicated(info) ==
    /\ ~ListFails(list_res)
    /\ list_res # NoResponse
    /\ Aged(info)
    /\ Str(info.id) \in DOMAIN unread_bookmarks

\* C3: an aged entry found in the mapping with a starred field other than "1"
\* ("0", missing, non-string) gets a delete call and is removed from the snapshot.
C3_UnstarredDeletion ==
    Returned =>
        \A e \in InputEntries :
            (Adjudicated(e) /\ unread_bookmarks[Str(e.id)].starred # "str:1") =>
                /\ DeletedFor(e)
                /\ e.url \notin Keys(tracked_data)

\* C4: a delete call that fails (status or transport exception) does not stop the cycle:
\* the loop goes on, the snapshot it returns lacks the entry, and the delete is issued once.
C4_FailedDeleteStillPurges ==
    \A d \in CycleDeletes :
        d.outcome # "ok" =>
            /\ pc \in {"cleanup_loop", "save"}
            /\ Returned => d.url \notin Keys(tracked_data)
            /\ Cardinality({j \in 1..Len(delete_log) : delete_log[j].url = d.url}) = 1

\* C5: after a list call that returned success with a decoded body, an aged entry whose
\* identifier is absent from the remote mapping is absent from the returned snapshot and
\* got no delete call.
C5_UnknownRemotePurge ==
    (Returned /\ ListSucceeded(list_res) /\ list_res.body.shape # "undecodable") =>
        \A e \in InputEntries :
            (Aged(e) /\ Str(e.id) \notin DOMAIN RemoteMapping(list_res.body)) =>
                /\ e.url \notin Keys(tracked_data)
                /\ ~DeletedFor(e)

\* C6: an entry whose age does not exceed 24 hours is in the returned snapshot with the
\* same fields, and no delete call is issued for it, whatever the list call returned.
C6_FreshKept ==
    \A e \in InputEntries :
        current_time - e.added_at <= 24 * 60 * 60 =>
            /\ ~DeletedFor(e)
            /\ Returned => e \in ResultEntries

\* C6 witness: an entry aged exactly 24 hours, listed unstarred, survives next to a purged one.
C6_Witness ==
    /\ Returned
    /\ \E e \in InputEntries :
          /\ current_time - e.added_at = 24 * 60 * 60
          /\ Str(e.id) \in DOMAIN unread_bookmarks
          /\ unread_bookmarks[Str(e.id)].starred = "str:0"
          /\ e \in ResultEntries
    /\ Len(tracked_data) < Len(cleanup_in)

\* the URLs a cycle on the current input issues a delete for, given a mapping
DeleteTargets(map) == {e.url : e \in {x \in InputEntries : Aged(x) /\ ShouldDelete(x, map)}}

\* C7: with a success response whose body wraps the sequence in "bookmarks", the deletes
\* issued and the entries purged are those for the same sequence returned bare.
C7_WrappedResponse ==
    (Returned /\ ListSucceeded(list_res) /\ list_res.body.shape = "wrapped") =>
        /\ {d.url : d \in CycleDeletes} = DeleteTargets(Normalize(Body("list", list_res.body.items)))
        /\ Keys(tracked_data) = {e.url : e \in {x \in InputEntries : ~Aged(x)}}

\* C8: a success response with an object without "bookmarks", a scalar or null is not a
\* list failure: the mapping is empty, every aged entry is purged, no delete is issued.
C8_NormalizerTotality ==
    (/\ Returned
     /\ ListSucceeded(list_res)
     /\ list_res.body.shape \in OtherShapes \ {"undecodable"}) =>
        /\ \A e \in InputEntries : Aged(e) => e.url \notin Keys(tracked_data)
        /\ CycleDeletes = {}

----------------------------------------------------------------------------
(* Claims on the ingestion engine, checked under SpecIngest *)

CallsOfRun(r) == {i \in 1..Len(add_log) : add_log[i].run = r}

\* no call was sent for a URL that was a key of the snapshot at that moment
OnlyUnseenSubmitted == \A i \in 1..Len(add_log) : ~add_log[i].tracked

\* no URL had an entry stored for it twice
RecordedAtMostOnce ==
    \A i, j \in 1..Len(add_log) :
        (i < j /\ add_log[i].recorded /\ add_log[j].recorded) => add_log[i].url # add_log[j].url

\* an ingestion run has returned
IngestReturned == pc = "cleanup"

\* C9 as stated: only unseen URLs are submitted, each URL is added at most once, and the
\* second run issues no add call and leaves the snapshot unchanged.
C9_Original ==
    /\ OnlyUnseenSubmitted
    /\ RecordedAtMostOnce
    /\ \A i \in 1..Len(add_log) : add_log[i].run = 1
    /\ (IngestReturned /\ run > 1) => tracked_data = ingest_in

\* C9 amended: only unseen URLs are submitted and each URL is recorded at most once; a
\* later run submits only URLs the run before it submitted without an entry being
\* recorded, so after a run whose adds were all recorded the next run issues no add call
\* and leaves the snapshot unchanged.
C9_IdempotentIngestion ==
    /\ OnlyUnseenSubmitted
    /\ RecordedAtMostOnce
    /\ \A j \in 1..Len(add_log) :
          add_log[j].run > 1 =>
              /\ \E i \in CallsOfRun(add_log[j].run - 1) : add_log[i].url = add_log[j].url
              /\ \A i \in 1..(j - 1) : add_log[i].url = add_log[j].url => ~add_log[i].recorded
    /\ (/\ IngestReturned
        /\ run > 1
        /\ \A i \in CallsOfRun(run - 1) : add_log[i].recorded) =>
            /\ CallsOfRun(run) = {}
            /\ tracked_data = ingest_in

\* C9 witness: the second run returned without a call after a first run that recorded two URLs.
C9_Witness ==
    /\ IngestReturned
    /\ run = 2
    /\ Cardinality(CallsOfRun(1)) = 2
    /\ \A i \in CallsOfRun(1) : add_log[i].recorded
    /\ CallsOfRun(2) = {}
    /\ tracked_data = ingest_in
    /\ Len(tracked_data) = 2

\* the add call succeeded in the sense of the specification: success status, and a decoded
\* body that is a non-empty sequence whose first element carries a bookmark identifier
AddSucceeded(res) ==
    /\ ~res.exc
    /\ res.status = StatusOK
    /\ res.body.shape = "list"
    /\ res.body.items # <<>>
    /\ Head(res.body.items).kind = "dict"
    /\ Head(res.body.items).bookmark_id.ty # "missing"

\* C10: an add call stores an entry for its URL exactly when it succeeded; after any other
\* outcome the snapshot is as before, and either way the loop moves on to the next entry.
C10_AddOutcomeRecording ==
    [][Len(add_log') = Len(add_log) + 1 =>
        LET url == Head(entries) IN
          /\ (url \in Keys(tracked_data')) <=> AddSucceeded(add_res')
          /\ AddSucceeded(add_res') =>
                tracked_data' = Append(tracked_data,
                                       Entry(url, now, Head(add_res'.body.items).bookmark_id))
          /\ ~AddSucceeded(add_res') => tracked_data' = tracked_data
          /\ pc' = "entries"
          /\ entries' = Tail(entries)
          /\ fi' = fi]_vars

\* C10 witness: a run returned in which one URL's add failed and left no entry, and a later
\* add in a later feed stored one.
C10_Witness ==
    /\ IngestReturned
    /\ run = 1
    /\ \E i, j \in 1..Len(add_log) :
          /\ i < j
          /\ ~add_log[i].recorded
          /\ add_log[i].url \notin Keys(tracked_data)
          /\ add_log[j].recorded
          /\ add_log[j].url \in Keys(tracked_data)
    /\ ~AddSucceeded(add_res)

\* C11: within a run the add calls go feed by feed in the configured order, and within a
\* feed from the parser's last entry back to its first: each call carries the entry at the
\* parser position still to be walked, and positions fall from call to call.
C11_SubmissionOrder ==
    /\ \A i \in 1..Len(add_log) :
          /\ add_log[i].feed \in 1..Len(RSS_FEED_URLS)
          /\ add_log[i].left \in 1..Len(feeds[add_log[i].feed])
          /\ add_log[i].url = feeds[add_log[i].feed][add_log[i].left]
    /\ \A i, j \in 1..Len(add_log) :
          (i < j /\ add_log[i].run = add_log[j].run) =>
              \/ add_log[i].feed < add_log[j].feed
              \/ /\ add_log[i].feed = add_log[j].feed
                 /\ add_log[i].left > add_log[j].left

\* C11 witness: two calls for the two entries of the first feed, newest last, then a call
\* for the second feed.
C11_Witness ==
    \E i, j, k \in 1..Len(add_log) :
        /\ i < j
        /\ j < k
        /\ add_log[i].run = 1
        /\ add_log[k].run = 1
        /\ add_log[i].feed = 1
        /\ add_log[j].feed = 1
        /\ add_log[i].url = feeds[1][2]
        /\ add_log[j].url = feeds[1][1]
        /\ feeds[1][1] # feeds[1][2]
        /\ add_log[k].feed = 2

\* C12: within one run no URL is submitted twice, also when several feeds or several
\* entries of a feed list it, and a URL whose add failed is not a key when the run returns.
C12_NoRetryWithinRun ==
    /\ \A i, j \in 1..Len(add_log) :
          (i < j /\ add_log[i].run = add_log[j].run) => add_log[i].url # add_log[j].url
    /\ IngestReturned =>
          \A i \in CallsOfRun(run) : ~add_log[i].recorded => add_log[i].url \notin Keys(tracked_data)

----------------------------------------------------------------------------
(* Claims on whole runs of main(), checked under Spec *)

\* the run raised after authentication: a transport exception of a delete call
RunCrashed(r) == \E i \in 1..Len(delete_log) :
                    delete_log[i].run = r /\ delete_log[i].outcome = "exception"

ListedUrls == UNION {{feeds[f][k] : k \in 1..Len(feeds[f])} : f \in 1..Len(RSS_FEED_URLS)}

\* C13: after authentication no run ends before the save step, whatever the add, list and
\* delete calls return or raise, and the file it leaves holds the snapshot: every entry
\* recorded in the run and not purged by it.
C13_AlwaysSaves ==
    /\ pc # "crashed"
    /\ pc = "done" =>
          /\ file = File("json", tracked_data)
          /\ \A i \in CallsOfRun(run) :
                add_log[i].recorded => add_log[i].url \in Keys(file.data)

\* the token was not obtained: the service refused, with whatever text, or the call raised
AuthFailed(res) == res \in {"error_pairs", "error_text", "exception"}

\* C14: when the token cannot be obtained the run ends there: the state file is neither
\* loaded nor saved and is as the run found it, no feed is parsed, and no add, list or
\* delete call is made.
C14_AuthFailureFatal ==
    /\ AuthFailed(auth_res) => pc = "aborted"
    /\ pc = "aborted" =>
          /\ AuthFailed(auth_res)
          /\ \A op \in file_ops : op.run # run
          /\ file = file0
          /\ tracked_data = <<>>
          /\ fi = 1
          /\ entries = <<>>
          /\ CallsOfRun(run) = {}
          /\ list_res = NoResponse
          /\ \A i \in 1..Len(delete_log) : delete_log[i].run # run

\* the run found no usable state file, and authenticated
ColdStart ==
    /\ file0.kind \in {"missing", "empty", "unparsable", "undecodable"}
    /\ auth_res = "token"

\* C15: a missing or empty state file, or one whose content cannot be parsed (text that is
\* no JSON, bytes that are no text), never fails the run: the snapshot loaded is empty,
\* every URL the feeds list is submitted, and the run ends by saving a snapshot with one
\* entry per recorded URL.
C15_TolerantLoad ==
    ColdStart =>
        /\ pc # "crashed"
        /\ pc \notin {"start", "load"} => ingest_in = <<>>
        /\ pc \in {"cleanup", "cleanup_loop", "save", "done"} =>
              \A u \in ListedUrls : \E i \in CallsOfRun(run) : add_log[i].url = u
        /\ pc = "done" =>
              /\ file.kind = "json"
              /\ file.data = tracked_data
              /\ Cardinality(Keys(file.data)) = Len(file.data)
              /\ Keys(file.data) = {add_log[i].url : i \in {j \in CallsOfRun(run) : add_log[j].recorded}}

\* C17 as stated: a URL whose entry retention purged is never submitted again, and no URL
\* is recorded twice.  (An entry of the state file is the product of a recorded add.)
C17_Original ==
    /\ \A i \in 1..Len(add_log) :
          \A p \in purged : ~(p.url = add_log[i].url /\ p.run < add_log[i].run)
    /\ RecordedAtMostOnce

\* C17 amended: a URL is never submitted while it is a key of the snapshot; once a saved
\* retention cycle has purged its entry the URL is unseen again, and the next run that
\* walks the feeds submits it if they still list it.  Two recorded adds of one URL lie in
\* different runs, and between them its entry was purged or the first run ended unsaved.
C17_ReingestionAfterPurge ==
    /\ OnlyUnseenSubmitted
    /\ \A i, j \in 1..Len(add_log) :
          (i < j /\ add_log[i].url = add_log[j].url
                 /\ add_log[i].recorded /\ add_log[j].recorded) =>
              /\ add_log[i].run < add_log[j].run
              /\ \/ RunCrashed(add_log[i].run)
                 \/ \E p \in purged :
                       /\ p.url = add_log[i].url
                       /\ add_log[i].run <= p.run
                       /\ p.run < add_log[j].run
    /\ \A p \in purged :
          (/\ p.run = run - 1
           /\ p.url \in ListedUrls
           /\ pc \in {"cleanup", "cleanup_loop", "save", "done", "crashed"}) =>
              \E i \in CallsOfRun(run) : add_log[i].url = p.url

\* C17 witness: the run after the one that purged a URL submitted it and recorded it anew.
C17_Witness ==
    \E p \in purged :
        \E i \in 1..Len(add_log) :
            /\ add_log[i].url = p.url
            /\ add_log[i].run = p.run + 1
            /\ add_log[i].recorded
            /\ pc = "done"

\* C18: a delete call carries the identifier of an aged entry of the snapshot the cycle
\* began with, the list response of that cycle held a bookmark record with that
\* identifier, and over all runs a tracked entry gets at most one delete call: two delete
\* calls for one URL are for two entries, the second recorded after the first call.
C18_DeleteTargets ==
    /\ \A i \in 1..Len(delete_log) :
          delete_log[i].run = run =>
              /\ \E e \in InputEntries :
                    /\ e.url = delete_log[i].url
                    /\ Str(e.id) = delete_log[i].bookmark_id
                    /\ Aged(e)
              /\ \E k \in 1..Len(RemoteRecords(list_res.body)) :
                    /\ IsBookmark(RemoteRecords(list_res.body)[k])
                    /\ Str(RemoteRecords(list_res.body)[k].bookmark_id) = delete_log[i].bookmark_id
    /\ \A i, j \in 1..Len(delete_log) :
          (i < j /\ delete_log[i].url = delete_log[j].url) =>
              \E a \in 1..Len(add_log) :
                  /\ add_log[a].url = delete_log[i].url
                  /\ add_log[a].recorded
                  /\ delete_log[i].run <= add_log[a].run
                  /\ add_log[a].run < delete_log[j].run

IsPrefix(s, t) == Len(s) <= Len(t) /\ \A i \in 1..Len(s) : s[i] = t[i]

\* C19: while add_new_articles runs the snapshot extends the one it was given, entry for
\* entry, by entries for distinct URLs the feeds list; the snapshot cleanup_old_articles
\* returns holds only entries of the one it was given, unchanged and in their order.
C19_Frame ==
    /\ pc \in {"ingest", "entries", "cleanup", "cleanup_loop"} =>
          /\ IsPrefix(ingest_in, tracked_data)
          /\ Cardinality(Keys(tracked_data)) = Len(tracked_data)
          /\ Keys(tracked_data) \ Keys(ingest_in) \subseteq ListedUrls
    /\ pc \in {"cleanup_loop", "save"} =>
          /\ ResultEntries \subseteq InputEntries
          /\ IsPrefix(ingest_in, cleanup_in)
    /\ pc = "save" => Keys(tracked_data) \subseteq Keys(cleanup_in)

\* C19 witness: a cycle returned one entry, added in this run, of a snapshot whose loaded
\* entry it purged.
C19_Witness ==
    /\ pc = "save"
    /\ Len(ingest_in) = 1
    /\ Len(cleanup_in) = 2
    /\ tracked_data = <<cleanup_in[2]>>

----------------------------------------------------------------------------
(* The earlier variant, src/instapaper_rss_feed_sync.py: one run of its main().  No call
   stands in a try, no status of the list call is read, and the loader decodes the file
   unguarded. *)

LegacySleepSeconds == 1

\* the record of an error response: a JSON object whose type is not "bookmark"
ErrorRecord == [kind |-> "dict", type |-> "error", bookmark_id |-> NoId, starred |-> "missing"]

\* a bookmark record without the bookmark_id key
IdlessBookmark ==
    [kind |-> "dict", type |-> "bookmark", bookmark_id |-> NoId, starred |-> "str:0"]

\* a JSON object without the key type
TypelessRecord ==
    [kind |-> "dict", type |-> "missing", bookmark_id |-> NoId, starred |-> "missing"]

LegacyBookmarks ==
    {b \in BookmarkRecords : b.bookmark_id = [ty |-> "int", n |-> 1]}

\* the outcomes of the list call the earlier variant is checked against
LegacyListOutcomes ==
    {Response(TRUE, 0, Body("null", <<>>))}
        \cup {Response(FALSE, st, Body(sh, <<>>)) :
                st \in Statuses, sh \in {"undecodable", "empty_object", "object", "list"}}
        \cup {Response(FALSE, st, Body("wrapped", <<b>>)) : st \in Statuses, b \in LegacyBookmarks}
        \cup {Response(FALSE, st, Body("list", <<b>>)) :
                st \in Statuses,
                b \in LegacyBookmarks
                        \cup {ErrorRecord, ScalarItem, IdlessBookmark, TypelessRecord}}

\* line 69: list_res.json() raises on text that is no JSON, iterating a number or None
\* raises TypeError, b['type'] raises on every element that is no JSON object (the keys
\* of an object, the characters of a string) and KeyError on an object without the key,
\* and b['bookmark_id'] raises KeyError on a bookmark record without the key
LegacyScanRaises(body) ==
    \/ body.shape \in {"undecodable", "number", "null"}
    \/ \E i \in 1..Len(IterItems(body)) :
          \/ IterItems(body)[i].kind # "dict"
          \/ IterItems(body)[i].type = "missing"
          \/ /\ IterItems(body)[i].type = "bookmark"
             /\ IterItems(body)[i].bookmark_id.ty = "missing"

\* line 69: the mapping of the comprehension
LegacyNormalize(body) == ScanItems(IterItems(body), EmptyMap)

\* line 76: info['id'] raises KeyError on an entry without the key
LegacyIdRaises(info) == info.id.ty = "missing"

\* line 83: bookmark['starred'] raises KeyError on a record without the field
LegacyStarredRaises(bookmark) == bookmark.starred = "missing"

\* lines 41-42: json.load outside any try raises on an empty file, on text that is no
\* JSON and on bytes that are no text
LegacyLoadRaises(f) == f.kind \in {"empty", "unparsable", "undecodable"}

\* the outcomes of the add call the earlier variant is checked against
LegacyAddOutcomes ==
    {Response(TRUE, 0, Body("null", <<>>)),
     Response(FALSE, 500,
              Body("list", <<[kind |-> "dict", type |-> "bookmark",
                              bookmark_id |-> [ty |-> "int", n |-> 1], starred |-> "str:0"]>>)),
     Response(FALSE, StatusOK, Body("list", <<>>)),
     Response(FALSE, StatusOK, Body("undecodable", <<>>)),
     Response(FALSE, StatusOK,
              Body("list", <<[kind |-> "dict", type |-> "bookmark",
                              bookmark_id |-> [ty |-> "int", n |-> 2], starred |-> "str:0"]>>))}

\* line 60: res.json()[0]['bookmark_id'] yields the identifier
LegacyAddStores(res) ==
    /\ ~res.exc
    /\ res.status = StatusOK
    /\ res.body.shape = "list"
    /\ Len(res.body.items) > 0
    /\ res.body.items[1].kind = "dict"
    /\ res.body.items[1].bookmark_id.ty # "missing"

\* lines 56-60: the post raises, or the status is 200 and line 60 raises (no JSON, an
\* empty list, a body or first element that cannot be indexed, no bookmark_id)
LegacyAddRaises(res) ==
    \/ res.exc
    \/ res.status = StatusOK /\ ~LegacyAddStores(res)

RECURSIVE DelAll(_, _)
\* lines 94-95: del tracked_data[url] for every url of the list
DelAll(data, urls) ==
    IF data = <<>> THEN <<>>
    ELSE IF \E i \in 1..Len(urls) : urls[i] = Head(data).url
           THEN DelAll(Tail(data), urls)
           ELSE <<Head(data)>> \o DelAll(Tail(data), urls)

\* main() line 98 and get_oauth_token (lines 26-36)
LegacyGetOAuthToken ==
    /\ pc = "start"
    /\ \E res \in AuthOutcomes :
          /\ auth_res' = res
          /\ pc' = IF AuthRaises(res) THEN "aborted" ELSE "load"
    /\ UNCHANGED <<now, tracked_data, file, file0, file_ops, purged, urls_to_remove_from_db>>
    /\ UNCHANGED ingestVars
    /\ UNCHANGED cleanupVars

\* main() line 99 and get_tracked_data (lines 38-42)
LegacyGetTrackedData ==
    /\ pc = "load"
    /\ file_ops' = file_ops \cup {FileOp(run, "load")}
    /\ IF LegacyLoadRaises(file)
         THEN /\ pc' = "crashed"
              /\ UNCHANGED <<tracked_data, ingest_in>>
         ELSE /\ pc' = "ingest"
              /\ tracked_data' = LoadFile(file)
              /\ ingest_in' = LoadFile(file)
    /\ UNCHANGED <<now, run, feeds, fi, entries, add_res, add_log>>
    /\ UNCHANGED <<auth_res, file, file0, purged, urls_to_remove_from_db>>
    /\ UNCHANGED cleanupVars

\* lines 50-52: the next feed is parsed and its entries reversed
LegacyParseFeed ==
    /\ pc = "ingest"
    /\ fi <= Len(RSS_FEED_URLS)
    /\ entries' = Reverse(feeds[fi])
    /\ pc' = "entries"
    /\ UNCHANGED <<now, run, feeds, fi, add_res, add_log, ingest_in, tracked_data>>
    /\ UNCHANGED cleanupVars
    /\ UNCHANGED mainVars

\* lines 53-61: one entry of the feed; an exception of line 56 or 60 leaves main()
LegacyAddEntry ==
    /\ pc = "entries"
    /\ entries # <<>>
    /\ LET url == Head(entries) IN
         IF url \notin Keys(tracked_data)
           THEN \E res \in LegacyAddOutcomes :
                  /\ add_res' = res
                  /\ add_log' = Append(add_log, AddCall(run, url, FALSE, LegacyAddStores(res),
                                                     fi, Len(entries)))
                  /\ tracked_data' =
                        IF LegacyAddStores(res)
                          THEN SetItem(tracked_data,
                                       Entry(url, now, res.body.items[1].bookmark_id))
                          ELSE tracked_data
                  /\ IF LegacyAddRaises(res)
                       THEN pc' = "crashed" /\ now' = now
                       ELSE pc' = pc /\ now' = now + LegacySleepSeconds
           ELSE UNCHANGED <<add_res, add_log, tracked_data, now, pc>>
    /\ entries' = Tail(entries)
    /\ UNCHANGED <<run, feeds, fi, ingest_in>>
    /\ UNCHANGED cleanupVars
    /\ UNCHANGED mainVars

\* the inner loop is exhausted: the outer loop moves to the next feed
LegacyFeedDone ==
    /\ pc = "entries"
    /\ entries = <<>>
    /\ fi' = fi + 1
    /\ pc' = "ingest"
    /\ UNCHANGED <<now, run, feeds, entries, add_res, add_log, ingest_in, tracked_data>>
    /\ UNCHANGED cleanupVars
    /\ UNCHANGED mainVars

\* add_new_articles returns to main() (line 102)
LegacyIngestReturn ==
    /\ pc = "ingest"
    /\ fi > Len(RSS_FEED_URLS)
    /\ pc' = "cleanup"
    /\ UNCHANGED <<now, run, feeds, fi, entries, add_res, add_log, ingest_in, tracked_data>>
    /\ UNCHANGED cleanupVars
    /\ UNCHANGED mainVars

\* lines 64-71
LegacyListCall ==
    /\ pc = "cleanup"
    /\ \E res \in LegacyListOutcomes :
          /\ list_res' = res
          /\ IF res.exc \/ LegacyScanRaises(res.body)
                THEN /\ unread_bookmarks' = EmptyMap
                     /\ pc' = "crashed"
                ELSE /\ unread_bookmarks' = LegacyNormalize(res.body)
                     /\ pc' = "cleanup_loop"
    /\ cleanup_in' = tracked_data
    /\ current_time' = now
    /\ urls_to_remove_from_db' = <<>>
    /\ idx' = 1
    /\ UNCHANGED <<now, tracked_data, updated_tracked_data, delete_log>>
    /\ UNCHANGED ingestVars
    /\ UNCHANGED <<auth_res, file, file0, file_ops, purged>>

\* lines 73-91: one iteration of the loop over tracked_data.items()
LegacyCleanupEntry ==
    /\ pc = "cleanup_loop"
    /\ idx <= Len(tracked_data)
    /\ LET info == tracked_data[idx]
           bookmark_id == Str(info.id) IN
         IF ~Expired(current_time, info)
           THEN UNCHANGED <<delete_log, pc, urls_to_remove_from_db>>
           ELSE IF LegacyIdRaises(info)
                  THEN /\ pc' = "crashed"
                       /\ UNCHANGED <<delete_log, urls_to_remove_from_db>>
           ELSE IF bookmark_id \notin DOMAIN unread_bookmarks
                  THEN /\ urls_to_remove_from_db' = Append(urls_to_remove_from_db, info.url)
                       /\ UNCHANGED <<delete_log, pc>>
                  ELSE IF LegacyStarredRaises(unread_bookmarks[bookmark_id])
                         THEN /\ pc' = "crashed"
                              /\ UNCHANGED <<delete_log, urls_to_remove_from_db>>
                         ELSE IF Unliked(unread_bookmarks[bookmark_id])
                                THEN \E o \in DeleteOutcomes :
                                       /\ delete_log' = Append(delete_log,
                                                               DeleteCall(run, info.url, bookmark_id, o))
                                       /\ IF o = "exception"
                                            THEN /\ pc' = "crashed"
                                                 /\ UNCHANGED urls_to_remove_from_db
                                            ELSE /\ pc' = pc
                                                 /\ urls_to_remove_from_db' =
                                                        Append(urls_to_remove_from_db, info.url)
                                ELSE /\ urls_to_remove_from_db' =
                                            Append(urls_to_remove_from_db, info.url)
                                     /\ UNCHANGED <<delete_log, pc>>
    /\ idx' = idx + 1
    /\ UNCHANGED <<now, tracked_data, cleanup_in, current_time, list_res, unread_bookmarks,
                   updated_tracked_data>>
    /\ UNCHANGED ingestVars
    /\ UNCHANGED <<auth_res, file, file0, file_ops, purged>>

\* lines 94-95
LegacyRemove ==
    /\ pc = "cleanup_loop"
    /\ idx > Len(tracked_data)
    /\ tracked_data' = DelAll(tracked_data, urls_to_remove_from_db)
    /\ pc' = "save"
    /\ UNCHANGED <<now, cleanup_in, current_time, list_res, unread_bookmarks,
                   updated_tracked_data, idx, delete_log>>
    /\ UNCHANGED ingestVars
    /\ UNCHANGED mainVars

\* main() line 107 and save_tracked_data (lines 44-46)
LegacySave ==
    /\ pc = "save"
    /\ file' = File("json", tracked_data)
    /\ file_ops' = file_ops \cup {FileOp(run, "save")}
    /\ purged' = purged \cup {Purge(run, u) : u \in Keys(cleanup_in) \ Keys(tracked_data)}
    /\ pc' = "done"
    /\ UNCHANGED <<now, tracked_data>>
    /\ UNCHANGED cleanupVars
    /\ UNCHANGED ingestVars
    /\ UNCHANGED <<auth_res, file0, urls_to_remove_from_db>>

\* the state files the run may find; the last two hold an aged entry without the key id
LegacyFiles ==
    {File(k, <<>>) : k \in {"missing", "empty", "unparsable", "undecodable"}}
        \cup {File("json", t) : t \in Snapshots}
        \cup {File("json", <<Entry("a", StartTime - seconds_in_24h - 1, NoId)>>),
              File("json", <<Entry("b", StartTime - seconds_in_24h - 1, [ty |-> "int", n |-> 1]),
                             Entry("a", StartTime - seconds_in_24h - 1, NoId)>>)}

\* the feed contents the run is checked against: at most one entry in all
LegacyFeeds == {f \in FeedContents : Len(f[1]) + Len(f[2]) <= 1}

InitLegacy ==
    /\ pc = "start"
    /\ now = StartTime
    /\ run = 1
    /\ feeds \in LegacyFeeds
    /\ file \in LegacyFiles
    /\ file0 = file
    /\ file_ops = {}
    /\ purged = {}
    /\ auth_res = "none"
    /\ tracked_data = <<>>
    /\ fi = 1
    /\ entries = <<>>
    /\ add_res = NoResponse
    /\ add_log = <<>>
    /\ ingest_in = <<>>
    /\ cleanup_in = <<>>
    /\ current_time = StartTime
    /\ list_res = NoResponse
    /\ unread_bookmarks = EmptyMap
    /\ updated_tracked_data = <<>>
    /\ idx = 1
    /\ delete_log = <<>>
    /\ urls_to_remove_from_db = <<>>

NextLegacy ==
    \/ LegacyGetOAuthToken
    \/ LegacyGetTrackedData
    \/ LegacyParseFeed
    \/ LegacyAddEntry
    \/ LegacyFeedDone
    \/ LegacyIngestReturn
    \/ LegacyListCall
    \/ LegacyCleanupEntry
    \/ LegacyRemove
    \/ LegacySave

SpecLegacy == InitLegacy /\ [][NextLegacy]_vars

FileEntries == {file.data[i] : i \in 1..Len(file.data)}

\* C16: in the earlier variant, when the list call raises or returns a status other than
\* 200, no delete call is made, no entry leaves the tracked data, and every entry the
\* state file held before the run is still in it.
C16_LegacyFailSafe ==
    (list_res # NoResponse /\ ListFailedOutright(list_res)) =>
        /\ delete_log = <<>>
        /\ InputEntries \subseteq ResultEntries
        /\ \A i \in 1..Len(file0.data) : file0.data[i] \in FileEntries

====
